---------------------------- MODULE Spec2Model ----------------------------
(***************************************************************************)
(* Model of pysensors/optimizers/_gqr.py: the GQR optimizer (a column-     *)
(* pivoted Householder QR whose pivot search is masked by f_region).       *)
(*                                                                         *)
(* Numbers.  The code works on floating-point matrices.  The model works   *)
(* on exact real numbers of the form  s * sqrt(q)  (s a sign, q a natural  *)
(* number), written [s |-> s, q |-> q].  Basis matrices are drawn from the *)
(* matrices whose rows are integer multiples of unit vectors; on these     *)
(* every value the code computes (norms, reflectors, updated entries) is   *)
(* again of that form, so each line of the loop is evaluated exactly.  An  *)
(* operation that would leave the number domain has no value (CHOOSE over  *)
(* an empty set), which stops the model checker: a completed run shows     *)
(* that the arithmetic was exact throughout.                               *)
(*                                                                         *)
(* Indices.  Positions and column indices are 0-based as in the code;      *)
(* TLA+ sequences are 1-based, so the code's x[i] is written x[i+1].       *)
(***************************************************************************)
EXTENDS Integers, Sequences, FiniteSets

-----------------------------------------------------------------------------
(* Bounds of the model *)

NFeatures == 2
MaxSamples == 2
MaxCoef == 2

-----------------------------------------------------------------------------
(* Exact numbers  s * sqrt(q) *)

Sgn(n) == IF n > 0 THEN 1 ELSE IF n < 0 THEN -1 ELSE 0

Zero == [s |-> 0, q |-> 0]

IntS(n) == [s |-> Sgn(n), q |-> n * n]

Sqrt2 == [s |-> 1, q |-> 2]

RECURSIVE GCD(_, _)
GCD(a, b) == IF b = 0 THEN a ELSE GCD(b, a % b)

\* the integer square root of n, by Newton's iteration from x >= sqrt(n)
RECURSIVE ISqrtFrom(_, _)
ISqrtFrom(n, x) ==
    LET y == (x + n \div x) \div 2
    IN  IF y >= x THEN x ELSE ISqrtFrom(n, y)

\* the natural r with r*r = n; no value when n is not a perfect square
ExactSqrt(n) == CHOOSE r \in {IF n = 0 THEN 0 ELSE ISqrtFrom(n, n)} : r * r = n

Neg(a) == [s |-> 0 - a.s, q |-> a.q]

Mul(a, b) == [s |-> a.s * b.s, q |-> a.q * b.q]

\* a + b, for a and b rational multiples of one square root
Add(a, b) ==
    IF a.s = 0 THEN b
    ELSE IF b.s = 0 THEN a
    ELSE LET g == GCD(a.q, b.q)
             n == a.s * ExactSqrt(a.q \div g) + b.s * ExactSqrt(b.q \div g)
         IN  [s |-> Sgn(n), q |-> g * n * n]

Sub(a, b) == Add(a, Neg(b))

\* a / d for d > 0; no value when the quotient's square is not a natural
Div(a, d) ==
    [s |-> a.s, q |-> CHOOSE x \in {a.q \div d.q} : x * d.q = a.q]

\* np.sqrt(abs(a))
SqrtAbs(a) == [s |-> IF a.q > 0 THEN 1 ELSE 0, q |-> ExactSqrt(a.q)]

\* np.sign(a)
Sign(a) == IntS(a.s)

RECURSIVE SumSeq(_)
SumSeq(xs) == IF xs = <<>> THEN Zero ELSE Add(Head(xs), SumSeq(Tail(xs)))

RECURSIVE SumNat(_)
SumNat(xs) == IF xs = <<>> THEN 0 ELSE Head(xs) + SumNat(Tail(xs))

-----------------------------------------------------------------------------
(* Matrices: a matrix is a sequence of rows, a row a sequence of numbers *)

Min(a, b) == IF a <= b THEN a ELSE b

\* basis_matrix.shape
NRows(M) == Len(M)
NCols(M) == Len(M[1])

\* basis_matrix.conj().T.copy()  (the entries are real, conj is the identity)
ConjTranspose(M) ==
    [r \in 1..NCols(M) |-> [c \in 1..NRows(M) |-> M[c][r]]]

\* np.arange(n)
Arange(n) == [i \in 1..n |-> i - 1]

\* R[j:, c] as a vector (c a 0-based column index)
ColFrom(R, c, j) == [r \in 1..(NRows(R) - j) |-> R[j + r][c + 1]]

\* variant: the two entries are written one after the other, without a temporary
SwapEntries_NoTemp(x, a, b) ==
    [i \in 1..Len(x) |-> IF i = a + 1 THEN x[b + 1] ELSE x[i]]

\* variant: the pivot position is taken without the offset of the iteration
\* (the entry at position a is exchanged with the entry at position b - a)
SwapEntries_NoOffset(x, a, b) ==
    [i \in 1..Len(x) |-> IF i = a + 1 THEN x[b - a + 1]
                         ELSE IF i = b - a + 1 THEN x[a + 1] ELSE x[i]]

\* x[[a, b]] = x[[b, a]] on a vector (a, b 0-based positions)
SwapEntries(x, a, b) ==
    [i \in 1..Len(x) |-> IF i = a + 1 THEN x[b + 1]
                         ELSE IF i = b + 1 THEN x[a + 1] ELSE x[i]]

\* R[:, [a, b]] = R[:, [b, a]]
SwapColumns(R, a, b) == [r \in 1..NRows(R) |-> SwapEntries(R[r], a, b)]

\* np.sqrt(np.sum(np.abs(R[j:, j:]) ** 2, axis=0))
ColumnNorms(R, j) ==
    [t \in 1..(NCols(R) - j) |->
        LET sq == SumNat([r \in 1..(NRows(R) - j) |-> R[j + r][j + t].q])
        IN  [s |-> IF sq > 0 THEN 1 ELSE 0, q |-> sq]]

\* variant: the last occurrence of the maximum
ArgMax_Last(v) ==
    (CHOOSE i \in 1..Len(v) :
        /\ \A n \in 1..Len(v) : v[n].q <= v[i].q
        /\ \A n \in (i + 1)..Len(v) : v[n].q < v[i].q) - 1

\* np.argmax(v) for a vector of non-negative numbers: 0-based position of the
\* first occurrence of the maximum
ArgMax(v) ==
    (CHOOSE i \in 1..Len(v) :
        /\ \A n \in 1..Len(v) : v[n].q <= v[i].q
        /\ \A n \in 1..(i - 1) : v[n].q < v[i].q) - 1

-----------------------------------------------------------------------------
(* f_region: the mask applied to the column norms *)

\* np.isin(piv[j:], lin_idx, invert=inv)
IsIn(piv, j, lin_idx, inv) ==
    [t \in 1..(Len(piv) - j) |-> (piv[j + t] \in lin_idx) # inv]

\* variant: the two branches exchanged
f_region_Inverted(lin_idx, dlens, piv, j, const_sensors) ==
    LET didx == IF j < const_sensors
                THEN IsIn(piv, j, lin_idx, FALSE)
                ELSE IsIn(piv, j, lin_idx, TRUE)
    IN  [t \in 1..Len(dlens) |-> IF didx[t] THEN Zero ELSE dlens[t]]

\* variant: the quota test is off by one (j <= const_sensors)
f_region_OffByOne(lin_idx, dlens, piv, j, const_sensors) ==
    LET didx == IF j <= const_sensors
                THEN IsIn(piv, j, lin_idx, TRUE)
                ELSE IsIn(piv, j, lin_idx, FALSE)
    IN  [t \in 1..Len(dlens) |-> IF didx[t] THEN Zero ELSE dlens[t]]

f_region(lin_idx, dlens, piv, j, const_sensors) ==
    LET didx == IF j < const_sensors
                THEN IsIn(piv, j, lin_idx, TRUE)
                ELSE IsIn(piv, j, lin_idx, FALSE)
    IN  [t \in 1..Len(dlens) |-> IF didx[t] THEN Zero ELSE dlens[t]]

-----------------------------------------------------------------------------
(* One iteration of the loop, from the choice of the pivot on *)

\* the reflector of the branch dlen > 0
Reflector(x, dlen) ==
    LET u1 == [i \in 1..Len(x) |-> Div(x[i], dlen)]
        u2 == [u1 EXCEPT ![1] =
                 Add(u1[1], Add(Sign(u1[1]), IntS(IF u1[1].s = 0 THEN 1 ELSE 0)))]
    IN  [i \in 1..Len(x) |-> Div(u2[i], SqrtAbs(u2[1]))]

\* R[j:, j:] -= np.outer(u, np.dot(u, R[j:, j:]))
ApplyReflector(R, u, j) ==
    LET w == [t \in 1..(NCols(R) - j) |->
                SumSeq([r \in 1..(NRows(R) - j) |-> Mul(u[r], R[j + r][j + t])])]
    IN  [r \in 1..NRows(R) |-> [c \in 1..NCols(R) |->
            IF r > j /\ c > j THEN Sub(R[r][c], Mul(u[r - j], w[c - j]))
            ELSE R[r][c]]]

\* R[j + 1:, j] = 0
ZeroBelow(R, j) ==
    [r \in 1..NRows(R) |-> [c \in 1..NCols(R) |->
        IF r > j + 1 /\ c = j + 1 THEN Zero ELSE R[r][c]]]

\* The pivot choice, the reflector, the swaps and the update of iteration j,
\* given the (masked) norm vector.  In the branch dlen = 0 the reflector u is
\* a view of column j + i_piv of R: writing u[0] writes R, and u is read
\* after the column swap.
PivotStep(R, p, j, norms) ==
    LET piv0 == ArgMax(norms)
        len == norms[piv0 + 1]
        piv == piv0 + j
        R1 == IF len.q > 0 THEN R ELSE [R EXCEPT ![j + 1][piv + 1] = Sqrt2]
        R2 == SwapColumns(R1, j, piv)
        u == IF len.q > 0 THEN Reflector(ColFrom(R, piv, j), len)
             ELSE ColFrom(R2, piv, j)
    IN  [R |-> ZeroBelow(ApplyReflector(R2, u, j), j),
         p |-> SwapEntries(p, j, piv),
         i_piv |-> piv,
         dlen |-> len]

-----------------------------------------------------------------------------
(* Inputs *)

\* basis matrices of shape [NFeatures, n_samples] whose rows are multiples
\* 0..MaxCoef of unit vectors
BasisRows(n_samples) ==
    {[c \in 1..n_samples |-> IF c = s THEN IntS(a) ELSE Zero] :
        s \in 1..n_samples, a \in 0..MaxCoef}

BasisMatrices ==
    UNION {[1..NFeatures -> BasisRows(n_samples)] : n_samples \in 1..MaxSamples}

\* pivots_ before the first successful fit
None == <<>>

-----------------------------------------------------------------------------
(* State *)

VARIABLES
    constrainedIndices,     \* self.constrainedIndices
    nSensors,               \* self.nSensors
    nConstrainedSensors,    \* self.nConstrainedSensors
    pivots_,                \* self.pivots_
    basis_matrix,           \* the argument of the fit call
    R, p, k, j,             \* locals of fit; j is the index of the next iteration
    dlens_updated, i_piv, dlen,   \* locals of the last iteration
    pc,                     \* "ready" | "loop" | "returned" | "raised"
    err                     \* the exception a raised call ended with

vars == <<constrainedIndices, nSensors, nConstrainedSensors, pivots_,
          basis_matrix, R, p, k, j, dlens_updated, i_piv, dlen, pc, err>>

attrs == <<constrainedIndices, nSensors, nConstrainedSensors>>

\* GQR.__init__: no argument is validated
Init ==
    /\ constrainedIndices \in SUBSET (0..(NFeatures - 1))
    /\ nSensors \in 1..NFeatures
    /\ nConstrainedSensors \in 0..NFeatures
    /\ pivots_ = None
    /\ basis_matrix = <<>>
    /\ R = <<>>
    /\ p = <<>>
    /\ k = 0
    /\ j = 0
    /\ dlens_updated = <<>>
    /\ i_piv = 0
    /\ dlen = Zero
    /\ pc = "ready"
    /\ err = "none"

\* variant: the size of the constrained region is added instead of subtracted
Infeasible_SignFlipped(B) ==
    nSensors > NRows(B) + Cardinality(constrainedIndices) + nConstrainedSensors

\* the first check of fit fails
Infeasible(B) ==
    nSensors > NRows(B) - Cardinality(constrainedIndices) + nConstrainedSensors

\* the second check of fit fails
TooFewSamples(B) == nSensors > NCols(B) + nConstrainedSensors

\* a new call starts with fresh locals
NoLocals ==
    /\ R' = <<>>
    /\ p' = <<>>
    /\ k' = 0
    /\ j' = 0
    /\ dlens_updated' = <<>>
    /\ i_piv' = 0
    /\ dlen' = Zero

\* fit(B), up to the loop: the checks and the initialisation of the locals.
\* The message of the second check names n_sensors, which is neither a local
\* of fit nor an attribute: it is looked up as a module-level name, which is
\* bound only when the file runs as a script (n_sensors_bound).
FitChecks(B, n_sensors_bound) ==
    /\ basis_matrix' = B
    /\ IF Infeasible(B)
       THEN /\ pc' = "raised"
            /\ err' = "IOError"
            /\ NoLocals
       ELSE IF TooFewSamples(B)
       THEN /\ pc' = "raised"
            /\ err' = IF n_sensors_bound THEN "IOError" ELSE "NameError"
            /\ NoLocals
       ELSE /\ pc' = "loop"
            /\ err' = "none"
            /\ R' = ConjTranspose(B)
            /\ p' = Arange(NRows(B))
            /\ k' = Min(NCols(B), NRows(B))
            /\ j' = 0
            /\ dlens_updated' = <<>>
            /\ i_piv' = 0
            /\ dlen' = Zero
    /\ UNCHANGED <<attrs, pivots_>>

\* a call of fit on a constructed optimizer
FitBegin ==
    /\ pc = "ready"
    /\ \E B \in BasisMatrices, n_sensors_bound \in BOOLEAN :
          FitChecks(B, n_sensors_bound)

\* one iteration of the loop
Iterate ==
    /\ pc = "loop"
    /\ j < k
    /\ \E dlens \in {ColumnNorms(R, j)} :
       \E masked \in {f_region(constrainedIndices, dlens, p, j, nConstrainedSensors)} :
       \E step \in {PivotStep(R, p, j, masked)} :
           /\ dlens_updated' = masked
           /\ i_piv' = step.i_piv
           /\ dlen' = step.dlen
           /\ R' = step.R
           /\ p' = step.p
    /\ j' = j + 1
    /\ UNCHANGED <<attrs, pivots_, basis_matrix, k, pc, err>>

\* the end of fit
FitReturn ==
    /\ pc = "loop"
    /\ j = k
    /\ pivots_' = p
    /\ pc' = "returned"
    /\ UNCHANGED <<attrs, basis_matrix, R, p, k, j, dlens_updated, i_piv, dlen, err>>

Next ==
    \/ FitBegin
    \/ Iterate
    \/ FitReturn

Spec == Init /\ [][Next]_vars

-----------------------------------------------------------------------------
(* The unconstrained baseline: the same loop with no masking of the norms *)

\* (the iteration is bound through a one-element set, so that it is
\* evaluated once)
RECURSIVE QRLoop(_, _, _, _)
QRLoop(Rm, pm, jj, kk) ==
    IF jj = kk THEN pm
    ELSE CHOOSE res \in
            {QRLoop(step.R, step.p, jj + 1, kk) :
                step \in {PivotStep(Rm, pm, jj, ColumnNorms(Rm, jj))}} : TRUE

QRBaseline(B) ==
    QRLoop(ConjTranspose(B), Arange(NRows(B)), 0, Min(NCols(B), NRows(B)))

-----------------------------------------------------------------------------
(* Properties *)

IsPermutation(x, n) ==
    /\ Len(x) = n
    /\ {x[i] : i \in 1..Len(x)} = 0..(n - 1)

\* the column norms of the basis matrix, as iteration 0 computes them
InitialNorms == ColumnNorms(ConjTranspose(basis_matrix), 0)

\* C1, as stated: a completed fit with n_constrained_sensors = 0 returns the
\* permutation of the unconstrained baseline, whatever the constrained set.
C1_AnyRegionMatchesBaseline ==
    (pc = "returned" /\ nConstrainedSensors = 0)
        => pivots_ = QRBaseline(basis_matrix)

\* C1, amended: a completed fit with n_constrained_sensors = 0 and an EMPTY
\* set of constrained indices returns exactly the permutation of the
\* unconstrained baseline on the same matrix.
C1_EmptyRegionMatchesBaseline ==
    (pc = "returned" /\ nConstrainedSensors = 0 /\ constrainedIndices = {})
        => pivots_ = QRBaseline(basis_matrix)

C1_Witness ==
    /\ pc = "returned"
    /\ nConstrainedSensors = 0
    /\ constrainedIndices = {}
    /\ pivots_ # Arange(NRows(basis_matrix))
    /\ pivots_ = QRBaseline(basis_matrix)

\* C2: after a fit with quota m > 0 and at least m constrained indices, the
\* first m entries of pivots_ are all members of the constrained set.
C2_QuotaSatisfied ==
    (/\ pc = "returned"
     /\ nConstrainedSensors > 0
     /\ Cardinality(constrainedIndices) >= nConstrainedSensors)
        => \A i \in 1..nConstrainedSensors : pivots_[i] \in constrainedIndices

\* C3: after a fit, when at least n_sensors - m column indices lie outside the
\* constrained set, the entries of pivots_ at positions m .. n_sensors-1
\* contain no member of the constrained set.
C3_PostQuotaExclusion ==
    (/\ pc = "returned"
     /\ NRows(basis_matrix) - Cardinality(constrainedIndices)
            >= nSensors - nConstrainedSensors)
        => \A i \in (nConstrainedSensors + 1)..nSensors :
              pivots_[i] \notin constrainedIndices

\* C4: in every state of fit from the initialisation on, p is a permutation
\* of 0..n_features-1 and the loop can go on or return (also after an
\* iteration that took the fallback reflector), and the returned pivots_ is
\* such a permutation.
C4_PermutationValid ==
    /\ pc = "loop" =>
          /\ IsPermutation(p, NRows(basis_matrix))
          /\ j <= k
          /\ err = "none"
    /\ pc = "returned" => IsPermutation(pivots_, NRows(basis_matrix))

C4_Witness ==
    /\ pc = "returned"
    /\ k >= 1
    /\ dlen = Zero
    /\ pivots_ # Arange(NRows(basis_matrix))

\* C5: a fit call with n_sensors > n_features - |constrained_indices| +
\* n_constrained_sensors ends at once with the IOError of the first check:
\* no local of the factorization is set, no iteration runs, and pivots_ is
\* what it was before the call.
C5_FeasibilityRejection ==
    [][(/\ pc = "ready"
        /\ pc' # "ready"
        /\ nSensors > Len(basis_matrix') - Cardinality(constrainedIndices)
                        + nConstrainedSensors)
         => (/\ pc' = "raised"
             /\ err' = "IOError"
             /\ pivots_' = pivots_
             /\ R' = <<>>
             /\ p' = <<>>
             /\ j' = 0
             /\ dlens_updated' = <<>>)]_vars

C5_Witness ==
    /\ pc = "raised"
    /\ err = "IOError"
    /\ pivots_ = None
    /\ nSensors > Len(basis_matrix) - Cardinality(constrainedIndices)
                    + nConstrainedSensors

\* C6: a fit call that passes the first check and has n_sensors > n_samples +
\* n_constrained_sensors ends with the same kind of error as the first check
\* (IOError), and no iteration runs.
C6_SampleBoundRejection ==
    (/\ pc # "ready"
     /\ ~ Infeasible(basis_matrix)
     /\ nSensors > Len(basis_matrix[1]) + nConstrainedSensors)
        => (pc = "raised" /\ err = "IOError" /\ j = 0)

\* C7: every run that enters the loop has 0 <= n_constrained_sensors <=
\* n_sensors and at least n_constrained_sensors constrained indices.
C7_QuotaWithinBudget ==
    pc = "loop" =>
        /\ 0 <= nConstrainedSensors
        /\ nConstrainedSensors <= nSensors
        /\ Cardinality(constrainedIndices) >= nConstrainedSensors

\* C8: the masked vector of iteration j has the length of the norm vector;
\* its entry t is 0 if (j < n_constrained_sensors and p[j+t] is not
\* constrained) or (j >= n_constrained_sensors and p[j+t] is constrained),
\* and is the norm of column j+t otherwise; the constrained set is unchanged.
C8_MaskRule ==
    [][(pc = "loop" /\ j' = j + 1)
         => (/\ Len(dlens_updated') = Len(p) - j
             /\ \A t \in 1..(Len(p) - j) :
                  dlens_updated'[t] =
                    IF \/ (j < nConstrainedSensors /\ p[j + t] \notin constrainedIndices)
                       \/ (j >= nConstrainedSensors /\ p[j + t] \in constrainedIndices)
                    THEN Zero
                    ELSE ColumnNorms(R, j)[t]
             /\ constrainedIndices' = constrainedIndices)]_vars

C8_Witness ==
    /\ pc = "loop"
    /\ j = 1
    /\ \E t \in 1..Len(dlens_updated) :
          dlens_updated[t] = Zero /\ InitialNorms[t] # Zero
    /\ \E t \in 1..Len(dlens_updated) :
          dlens_updated[t] # Zero /\ dlens_updated[t] = InitialNorms[t]

\* C9: the pivot of iteration j is the lowest trailing position attaining the
\* maximum of the masked norm vector, and it is swapped into position j; when
\* every masked norm is zero the pivot is trailing position 0, the
\* permutation is unchanged by the iteration and the loop goes on.
C9_PivotSelection ==
    [][(pc = "loop" /\ j' = j + 1)
         => LET v == dlens_updated'
                t == i_piv' - j
            IN  /\ t \in 0..(Len(v) - 1)
                /\ \A n \in 1..Len(v) : v[n].q <= v[t + 1].q
                /\ \A n \in 1..t : v[n].q < v[t + 1].q
                /\ dlen' = v[t + 1]
                /\ p'[j + 1] = p[i_piv' + 1]
                /\ (\A n \in 1..Len(v) : v[n] = Zero)
                      => (i_piv' = j /\ p' = p /\ pc' = "loop")]_vars

C9_Witness ==
    /\ pc = "loop"
    /\ j = 1
    /\ j < k
    /\ nConstrainedSensors >= 1
    /\ dlen = Zero
    /\ i_piv = 0
    /\ \E t \in 1..Len(InitialNorms) : InitialNorms[t] # Zero

\* C10: an iteration j leaves the entries p[0..j-1] as they are and swaps
\* position j only with a position >= j, and fit returns p as it stands after
\* the last iteration.
C10_PrefixStable ==
    [][pc = "loop"
         => (/\ \A i \in 1..j : p'[i] = p[i]
             /\ (j' = j + 1) => (i_piv' >= j /\ p'[i_piv' + 1] = p[j + 1])
             /\ (pc' = "returned") => (pivots_' = p))]_vars

C10_Witness ==
    /\ pc = "returned"
    /\ k = 2
    /\ pivots_[1] # 0

=============================================================================



